---- MODULE Spec2Model ----
(***************************************************************************)
(* A model of app/app.py: the Flask application with registration, login,  *)
(* a profile, and the rate-limited ask() handler backed by a document      *)
(* store (users, user_data, qa_history) and a generative-AI client.        *)
(*                                                                         *)
(* Text is modelled as a sequence of one-character strings so that         *)
(* lower(), re.sub() and strip() are computed, not assumed.                *)
(* A handler is cut into steps at its store and AI calls: every such call  *)
(* is one atomic step, and the steps of requests of different clients      *)
(* interleave, as they do between the workers of the WSGI server.          *)
(***************************************************************************)
EXTENDS Integers, Sequences, FiniteSets, TLC

\* ------------------------------------------------------------------ bounds

\* The default limit of rate_limit_check (10 in the source), scaled down.
Limit == 1
\* The default window of rate_limit_check (3600 s in the source), in ticks.
Window == 1
\* Requests served in one run.
MaxRequests == 3
\* Longest password drawn in the password-policy specification.
MaxPwLen == 8
\* Largest limit / window / clock / record count drawn in the limiter specification.
MaxProbe == 3

\* Longest text drawn in the sanitizer specification.
MaxSanLen == 4

\* The clock stops late enough for a record to leave the window.
MaxTime == Window + 1
Clients == {"c1", "c2"}

\* ------------------------------------------------------------------ text

Lowers == <<"a","b","c","d","e","f","g","h","i","j","k","l","m",
            "n","o","p","q","r","s","t","u","v","w","x","y","z">>
Uppers == <<"A","B","C","D","E","F","G","H","I","J","K","L","M",
            "N","O","P","Q","R","S","T","U","V","W","X","Y","Z">>
Digits == {"0","1","2","3","4","5","6","7","8","9"}
Letters == {Lowers[i] : i \in 1..26} \cup {Uppers[i] : i \in 1..26}
\* What str.strip() removes at both ends.
Whitespace == {" ", "\t", "\n", "\r", "\f"}
\* The character class of re.sub(r'[<>"\']', ...).
Dangerous == {"<", ">", "\"", "'"}

\* Python's None where a text is expected.
NoneText == <<"None", "None">>

\* str.lower() on one character.
LowerChar(c) ==
    IF \E i \in 1..26 : Uppers[i] = c
    THEN Lowers[CHOOSE i \in 1..26 : Uppers[i] = c]
    ELSE c

\* str.lower()
lower(s) == [i \in 1..Len(s) |-> LowerChar(s[i])]

\* str.strip()
strip(s) ==
    LET keep == {i \in 1..Len(s) : s[i] \notin Whitespace}
    IN  IF keep = {} THEN <<>>
        ELSE SubSeq(s, CHOOSE i \in keep : \A j \in keep : i <= j,
                       CHOOSE i \in keep : \A j \in keep : i >= j)

\* re.sub(r'[<>"\']', '', text)
RemoveDangerous(s) == SelectSeq(s, LAMBDA c : c \notin Dangerous)

\* Faulty variant, for comparison: the text is trimmed before the characters
\* are deleted.
sanitize_input_strip_first(text) ==
    IF text = NoneText \/ text = <<>> THEN <<>>
    ELSE RemoveDangerous(strip(text))

\* if not text: return ""; else the re.sub, then the strip.
sanitize_input(text) ==
    IF text = NoneText \/ text = <<>> THEN <<>>
    ELSE strip(RemoveDangerous(text))

\* re.search(r"[A-Za-z]", password) / re.search(r"[0-9]", password)
HasLetter(s) == \E i \in 1..Len(s) : s[i] \in Letters
HasDigit(s) == \E i \in 1..Len(s) : s[i] \in Digits

MinPasswordLen == 8

\* Faulty variant, for comparison: the letter rule is missing.
validate_password_no_letter_rule(password) ==
    IF Len(password) < MinPasswordLen
    THEN <<FALSE, "Password must be at least 8 characters long">>
    ELSE IF ~HasDigit(password)
    THEN <<FALSE, "Password must contain at least one number">>
    ELSE <<TRUE, "Password is valid">>

validate_password(password) ==
    IF Len(password) < MinPasswordLen
    THEN <<FALSE, "Password must be at least 8 characters long">>
    ELSE IF ~HasLetter(password)
    THEN <<FALSE, "Password must contain at least one letter">>
    ELSE IF ~HasDigit(password)
    THEN <<FALSE, "Password must contain at least one number">>
    ELSE <<TRUE, "Password is valid">>

\* werkzeug's generate_password_hash / check_password_hash: the digest is
\* opaque and verifies exactly the password it was made from.
generate_password_hash(password) == <<"pbkdf2", password>>
check_password_hash(digest, password) == digest = generate_password_hash(password)

\* ------------------------------------------------------------------ forms

\* DataRequired: the field holds something other than whitespace.
DataRequired(text) == text # NoneText /\ strip(text) # <<>>

\* RegistrationForm: username DataRequired, Length(3, 20); password
\* DataRequired, Length(min=6).
RegistrationFormValid(username, password) ==
    /\ DataRequired(username) /\ Len(username) >= 3 /\ Len(username) <= 20
    /\ DataRequired(password) /\ Len(password) >= 6

\* LoginForm: both fields DataRequired.
LoginFormValid(username, password) ==
    DataRequired(username) /\ DataRequired(password)

\* QuestionForm: question DataRequired, Length(10, 1000).
QuestionFormValid(question) ==
    DataRequired(question) /\ Len(question) >= 10 /\ Len(question) <= 1000

StressChoices == {"low", "medium", "high"}

\* A submitted ProfileForm; posted = FALSE is a GET.
NoProfileForm ==
    [posted |-> FALSE, age |-> 0, goals |-> <<>>, stress |-> {},
     therapy |-> FALSE, meditation |-> FALSE]

\* ProfileForm: age NumberRange(13, 120); stress_level DataRequired, among
\* the three choices.
ProfileFormValid(form) ==
    /\ form.posted
    /\ form.age >= 13 /\ form.age <= 120
    /\ form.stress # {} /\ form.stress \subseteq StressChoices

\* ------------------------------------------------------------------ inputs

Bob == <<"B", "o", "b">>
bob == <<"b", "o", "b">>
eve == <<"e", "v", "e">>
RawUsernames == {Bob, bob, eve}

PwGood == <<"P", "a", "s", "s", "w", "0", "r", "d">>
PwDigits == <<"1", "2", "3", "4", "5", "6", "7", "8">>
PwShort == <<"s", "h", "o", "r", "t">>
Passwords == {PwGood, PwDigits, PwShort}

\* " <b>Why can't I sleep?" and a question under the form's minimum length.
QGood == <<" ", "<", "b", ">", "W", "h", "y", " ", "c", "a", "n", "'", "t",
           " ", "I", " ", "s", "l", "e", "e", "p", "?">>
QShort == <<"W", "h", "y", "?">>
Questions == {QGood, QShort}

\* What generate_content() may give back: an exception, or a response whose
\* text is empty, blank, or an answer with white space around it.
AiFailure == <<"raise">>
AiTexts == {<<>>, <<" ", "\n">>, <<" ", "R", "e", "s", "t", ".", "\n">>}
AiOutcomes == {AiFailure} \cup AiTexts

ProfileForms ==
    { NoProfileForm,
      [posted |-> TRUE, age |-> 12, goals |-> <<>>, stress |-> {"low"},
       therapy |-> FALSE, meditation |-> FALSE],
      [posted |-> TRUE, age |-> 30, goals |-> <<"sleep">>, stress |-> {"high"},
       therapy |-> TRUE, meditation |-> FALSE] }

\* ------------------------------------------------------------------ state

VARIABLES
    users,        \* mongo.db.users, in insertion order
    user_data,    \* mongo.db.user_data
    qa_history,   \* mongo.db.qa_history
    session,      \* per client: the user id of its login session, 0 = Anonymous
    api_key,      \* whether GEMINI_API_KEY is set
    now,          \* datetime.utcnow(), in ticks
    req,          \* per client: the request it has in flight
    admissions,   \* history: per qa_history record, the count its request had read
    budget,       \* requests the run may still start
    probe         \* the call under test in the pure-function specifications

vars == <<users, user_data, qa_history, session, api_key, now, req,
          admissions, budget, probe>>

Anonymous == 0
NoProbe == [fn |-> "none"]

\* A request record: pc is "idle", the handler's next step, or "done".
\* uid/uname are current_user; q is the submitted text, a, b, form, text and
\* count are the handler's locals; rl is how the rate limit went ("none",
\* "allowed", "denied", or "failed" when the count raised); db, ai and ins
\* count the store calls, AI calls and qa_history inserts the request made.
Idle ==
    [pc |-> "idle", op |-> "none", outcome |-> "none", uid |-> 0, uname |-> <<>>,
     q |-> <<>>, a |-> <<>>, b |-> <<>>, form |-> NoProfileForm,
     count |-> -1, rl |-> "none", text |-> <<>>,
     db |-> 0, ai |-> 0, ins |-> 0]

Begin(op) == [Idle EXCEPT !.pc = "run", !.op = op]
Finish(r, outcome) == [r EXCEPT !.pc = "done", !.outcome = outcome]

\* Returning a response touches nothing shared, so it is taken as soon as the
\* handler has finished: no step is interleaved between a handler's last step
\* and its return.
Quiet == \A c \in Clients : req[c].pc # "done"
Free(c) == Quiet /\ req[c].pc = "idle" /\ budget > 0
At(c, pc) == Quiet /\ req[c].pc = pc

\* The request of client c moves to next.
Step(c, next) == req' = [req EXCEPT ![c] = next]

DefaultProfile(user_id, username) ==
    [user_id |-> user_id, username |-> username, age |-> 0, goals |-> <<>>,
     therapy |-> FALSE, meditation |-> FALSE, stress_level |-> {}]

NewUser(id, username, password) ==
    [id |-> id, username |-> username,
     password |-> generate_password_hash(password),
     is_active |-> TRUE, last_login |-> -1]

\* The store the application starts on holds one account, deactivated out of
\* band (the application itself never clears is_active), with its profile.
SeedUsers == <<[NewUser(1, eve, PwGood) EXCEPT !.is_active = FALSE]>>
SeedProfiles == <<DefaultProfile(1, eve)>>

TypeOK ==
    /\ now \in 0..MaxTime
    /\ budget \in 0..MaxRequests
    /\ session \in [Clients -> 0..(1 + MaxRequests)]
    /\ api_key \in BOOLEAN
    /\ Len(admissions) = Len(qa_history)

\* The application starts on the seeded store with no session, or on one
\* where bob registered in an earlier run and clients may still hold his
\* login session (the session cookie outlives the process).
Init ==
    /\ \/ /\ users = SeedUsers
          /\ user_data = SeedProfiles
          /\ session = [c \in Clients |-> Anonymous]
       \/ /\ users = Append(SeedUsers, NewUser(2, bob, PwGood))
          /\ user_data = Append(SeedProfiles, DefaultProfile(2, bob))
          /\ session \in [Clients -> {Anonymous, 2}]
    /\ qa_history = <<>>
    /\ admissions = <<>>
    /\ api_key \in BOOLEAN
    /\ now = 0
    /\ req = [c \in Clients |-> Idle]
    /\ budget = MaxRequests
    /\ probe = NoProbe

\* ------------------------------------------------------------------ store

\* find_one: the first document that matches, or none.
Matching(coll, Match(_)) == {i \in 1..Len(coll) : Match(coll[i])}
First(S) == CHOOSE i \in S : \A j \in S : i <= j

\* Faulty variant, for comparison: the query leaves out the user_id filter.
RECURSIVE count_documents_any_user(_, _, _)
count_documents_any_user(history, user_id, window_start) ==
    IF history = <<>> THEN 0
    ELSE (IF Head(history).timestamp >= window_start THEN 1 ELSE 0)
         + count_documents_any_user(Tail(history), user_id, window_start)

\* count_documents({'user_id': ..., 'timestamp': {'$gte': window_start}})
RECURSIVE count_documents(_, _, _)
count_documents(history, user_id, window_start) ==
    IF history = <<>> THEN 0
    ELSE (IF Head(history).user_id = user_id /\ Head(history).timestamp >= window_start
          THEN 1 ELSE 0)
         + count_documents(Tail(history), user_id, window_start)

\* Faulty variant, for comparison: the bound is compared with <= instead of <.
rate_limit_check_inclusive(history, t, user_id, limit, window, ok) ==
    IF ok
    THEN LET count == count_documents(history, user_id, t - window)
         IN  <<count, count <= limit>>
    ELSE <<-1, TRUE>>

\* Faulty variant, for comparison: a failed count denies the request.
rate_limit_check_fail_closed(history, t, user_id, limit, window, ok) ==
    IF ok
    THEN LET count == count_documents(history, user_id, t - window)
         IN  <<count, count < limit>>
    ELSE <<-1, FALSE>>

\* rate_limit_check(user_id, limit, window): ok is whether the count query
\* answered.  The result is <<count, allowed>>, count = -1 when it raised.
rate_limit_check(history, t, user_id, limit, window, ok) ==
    IF ok
    THEN LET count == count_documents(history, user_id, t - window)
         IN  <<count, count < limit>>
    ELSE <<-1, TRUE>>

\* user_loader: the session's user, or none when the session is anonymous, the
\* record is missing or the lookup raises.
NoUser == [id |-> 0, username |-> <<>>]
user_loader(c, ok) ==
    LET hit == Matching(users, LAMBDA u : u.id = session[c])
    IN  IF session[c] # Anonymous /\ ok /\ hit # {}
        THEN [id |-> users[First(hit)].id, username |-> users[First(hit)].username]
        ELSE NoUser

\* Whether the look-up of user_loader answers; there is none without a session.
Loads(c) == IF session[c] = Anonymous THEN {TRUE} ELSE BOOLEAN

\* A request to a protected view: current_user resolved (one store read when
\* the session names a user).
Enter(c, op, ok) ==
    LET cu == user_loader(c, ok)
    IN  [Begin(op) EXCEPT !.uid = cu.id, !.uname = cu.username,
                          !.db = IF session[c] # Anonymous THEN 1 ELSE 0]

\* Faulty variant, for comparison: the view is not decorated with login_required.
login_required_missing(r) == TRUE

\* login_required: current_user.is_authenticated
login_required(r) == r.uid # 0

\* login_manager.unauthorized(): the redirect to the login view.
Unauthorized(r) == Finish(r, "redirect_login")

\* ------------------------------------------------------------------ register

\* register(), to its find_one: the form, the normalised username, the
\* password policy and the look-up of an existing user (outside the try: a
\* store failure there is the 500 page).
RegisterCheck(username, password, ok) ==
    LET r == [Begin("register") EXCEPT !.q = username, !.b = password]
        name == sanitize_input(lower(username))
    IN  IF ~RegistrationFormValid(username, password) THEN Finish(r, "page")
        ELSE IF ~validate_password(password)[1] THEN Finish(r, "invalid_password")
        ELSE IF ~ok THEN Finish([r EXCEPT !.db = 1], "error500")
        ELSE IF Matching(users, LAMBDA u : u.username = name) # {}
        THEN Finish([r EXCEPT !.db = 1], "username_exists")
        ELSE [r EXCEPT !.db = 1, !.pc = "reg_insert_user", !.a = name]

Register(c, username, password) ==
    /\ Free(c)
    /\ budget' = budget - 1
    /\ \E ok \in BOOLEAN : Step(c, RegisterCheck(username, password, ok))
    /\ UNCHANGED <<users, user_data, qa_history, admissions, session, api_key, now, probe>>

\* mongo.db.users.insert_one(...)
RegisterInsertUser(c) ==
    /\ At(c, "reg_insert_user")
    /\ \E ok \in BOOLEAN :
          IF ok
          THEN /\ users' = Append(users, NewUser(Len(users) + 1, req[c].a, req[c].b))
               /\ Step(c, [req[c] EXCEPT !.pc = "reg_insert_profile",
                                         !.uid = Len(users) + 1, !.db = @ + 1])
          ELSE /\ users' = users
               /\ Step(c, Finish([req[c] EXCEPT !.db = @ + 1], "registration_error"))
    /\ UNCHANGED <<user_data, qa_history, admissions, session, api_key, now, budget, probe>>

\* mongo.db.user_data.insert_one(...) with the defaults of ProfileForm
RegisterInsertProfile(c) ==
    /\ At(c, "reg_insert_profile")
    /\ \E ok \in BOOLEAN :
          IF ok
          THEN /\ user_data' = Append(user_data, DefaultProfile(req[c].uid, req[c].a))
               /\ Step(c, Finish([req[c] EXCEPT !.db = @ + 1], "registered"))
          ELSE /\ user_data' = user_data
               /\ Step(c, Finish([req[c] EXCEPT !.db = @ + 1], "registration_error"))
    /\ UNCHANGED <<users, qa_history, admissions, session, api_key, now, budget, probe>>

\* ------------------------------------------------------------------ login, logout

\* Faulty variant, for comparison: the query leaves out the is_active filter.
Credentials_any_status(username, password) ==
    LET name == sanitize_input(lower(username))
        hit == Matching(users, LAMBDA u : u.username = name)
    IN  IF hit # {} /\ check_password_hash(users[First(hit)].password, password)
        THEN users[First(hit)].id
        ELSE 0

\* mongo.db.users.find_one({'username': username, 'is_active': True}) and the
\* password check: the id of the user to log in, or 0.
Credentials(username, password) ==
    LET name == sanitize_input(lower(username))
        hit == Matching(users, LAMBDA u : u.username = name /\ u.is_active)
    IN  IF hit # {} /\ check_password_hash(users[First(hit)].password, password)
        THEN users[First(hit)].id
        ELSE 0

\* login(), to login_user(): ok is whether find_one answered.
LoginCheck(username, password, ok) ==
    LET r == [Begin("login") EXCEPT !.q = username, !.b = password]
        id == Credentials(username, password)
    IN  IF ~LoginFormValid(username, password) THEN Finish(r, "page")
        ELSE IF ~ok THEN Finish([r EXCEPT !.db = 1], "login_error")
        ELSE IF id = 0 THEN Finish([r EXCEPT !.db = 1], "invalid_credentials")
        ELSE [r EXCEPT !.db = 1, !.pc = "login_update", !.uid = id]

\* login_user() sets the session before last_login is stamped.
Login(c, username, password) ==
    /\ Free(c)
    /\ budget' = budget - 1
    /\ \E ok \in BOOLEAN :
          LET next == LoginCheck(username, password, ok)
          IN  /\ Step(c, next)
              /\ session' = IF next.pc = "login_update"
                            THEN [session EXCEPT ![c] = next.uid]
                            ELSE session
    /\ UNCHANGED <<users, user_data, qa_history, admissions, api_key, now, probe>>

\* mongo.db.users.update_one({'_id': ...}, {'$set': {'last_login': ...}})
LoginUpdate(c) ==
    /\ At(c, "login_update")
    /\ \E ok \in BOOLEAN :
          IF ok
          THEN /\ users' = [i \in 1..Len(users) |->
                              IF users[i].id = req[c].uid
                              THEN [users[i] EXCEPT !.last_login = now]
                              ELSE users[i]]
               /\ Step(c, Finish([req[c] EXCEPT !.db = @ + 1], "logged_in"))
          ELSE /\ users' = users
               /\ Step(c, Finish([req[c] EXCEPT !.db = @ + 1], "login_error"))
    /\ UNCHANGED <<user_data, qa_history, admissions, session, api_key, now, budget, probe>>

\* logout(): login_required, then logout_user().
Logout(c) ==
    /\ Free(c)
    /\ budget' = budget - 1
    /\ \E ok \in Loads(c) :
          LET r == Enter(c, "logout", ok)
          IN  IF ~login_required(r)
              THEN /\ Step(c, Unauthorized(r))
                   /\ session' = session
              ELSE /\ Step(c, Finish(r, "logged_out"))
                   /\ session' = [session EXCEPT ![c] = Anonymous]
    /\ UNCHANGED <<users, user_data, qa_history, admissions, api_key, now, probe>>

\* ------------------------------------------------------------------ dashboard, profile

\* dashboard(): login_required, then the two reads in one try; read is how
\* many of them answered.
Dashboard(c) ==
    /\ Free(c)
    /\ budget' = budget - 1
    /\ \E ok \in Loads(c), read \in 0..2 :
          LET r == Enter(c, "dashboard", ok)
          IN  Step(c, IF ~login_required(r) THEN Unauthorized(r)
                      ELSE IF read = 2 THEN Finish([r EXCEPT !.db = @ + 2], "dashboard")
                      ELSE Finish([r EXCEPT !.db = @ + read + 1], "dashboard_error"))
    /\ UNCHANGED <<users, user_data, qa_history, admissions, session, api_key, now, probe>>

\* profile(), to its update: login_required, the find_one (outside the try)
\* and the form.
Profile(c, form) ==
    /\ Free(c)
    /\ budget' = budget - 1
    /\ \E ok \in Loads(c), read \in BOOLEAN :
          LET r == Enter(c, "profile", ok)
          IN  Step(c, IF ~login_required(r) THEN Unauthorized(r)
                      ELSE IF ~read THEN Finish([r EXCEPT !.db = @ + 1], "error500")
                      ELSE IF ~ProfileFormValid(form)
                      THEN Finish([r EXCEPT !.db = @ + 1], "page")
                      ELSE [r EXCEPT !.db = @ + 1, !.pc = "profile_update", !.form = form])
    /\ UNCHANGED <<users, user_data, qa_history, admissions, session, api_key, now, probe>>

\* The $set of profile(): update_one changes the first matching document.
UpdateProfile(data, user_id, form) ==
    LET hit == Matching(data, LAMBDA d : d.user_id = user_id)
    IN  [i \in 1..Len(data) |->
            IF hit # {} /\ i = First(hit)
            THEN [data[i] EXCEPT !.age = form.age, !.goals = form.goals,
                                 !.therapy = form.therapy,
                                 !.meditation = form.meditation,
                                 !.stress_level = form.stress]
            ELSE data[i]]

ProfileUpdate(c) ==
    /\ At(c, "profile_update")
    /\ \E ok \in BOOLEAN :
          IF ok
          THEN /\ user_data' = UpdateProfile(user_data, req[c].uid, req[c].form)
               /\ Step(c, Finish([req[c] EXCEPT !.db = @ + 1], "profile_updated"))
          ELSE /\ user_data' = user_data
               /\ Step(c, Finish([req[c] EXCEPT !.db = @ + 1], "profile_error"))
    /\ UNCHANGED <<users, qa_history, admissions, session, api_key, now, budget, probe>>

\* ------------------------------------------------------------------ ask

\* Faulty variant, for comparison: the denial flashes its message but does not return.
AskGate_no_return(r, question, rl) ==
    IF ~QuestionFormValid(question) THEN Finish([r EXCEPT !.q = question], "page")
    ELSE [r EXCEPT !.db = @ + 1, !.q = question, !.count = rl[1],
                   !.rl = IF rl[1] = -1 THEN "failed"
                          ELSE IF rl[2] THEN "allowed" ELSE "denied",
                   !.pc = "ask_profile", !.a = sanitize_input(question)]

\* ask(), from validate_on_submit() to the rate limit: rl is what
\* rate_limit_check returned.
AskGate(r, question, rl) ==
    IF ~QuestionFormValid(question) THEN Finish([r EXCEPT !.q = question], "page")
    ELSE LET checked == [r EXCEPT !.db = @ + 1, !.q = question, !.count = rl[1],
                                  !.rl = IF rl[1] = -1 THEN "failed"
                                         ELSE IF rl[2] THEN "allowed" ELSE "denied"]
         IN  IF ~rl[2]
             THEN Finish(checked, "rate_limited")
             ELSE [checked EXCEPT !.pc = "ask_profile", !.a = sanitize_input(question)]

Ask(c, question) ==
    /\ Free(c)
    /\ budget' = budget - 1
    /\ \E ok \in Loads(c), counted \in BOOLEAN :
          LET r == Enter(c, "ask", ok)
              rl == rate_limit_check(qa_history, now, r.uid, Limit, Window, counted)
          IN  Step(c, IF ~login_required(r) THEN Unauthorized(r)
                      ELSE AskGate(r, question, rl))
    /\ UNCHANGED <<users, user_data, qa_history, admissions, session, api_key, now, probe>>

\* The user context of the prompt: the parts the profile contributes, in
\* order; none at all is "No additional context available."
Context(found, profile) ==
    IF ~found THEN <<>>
    ELSE (IF profile.age # 0 THEN <<"Age">> ELSE <<>>)
         \o (IF profile.goals # <<>> THEN <<"Mental Health Goals">> ELSE <<>>)
         \o (IF profile.stress_level # {} THEN <<"Stress Level">> ELSE <<>>)
         \o (IF profile.therapy THEN <<"Attends therapy or counseling.">> ELSE <<>>)
         \o (IF profile.meditation THEN <<"Practices meditation.">> ELSE <<>>)

\* ask(), from the profile look-up (a failure degrades to an empty profile)
\* to the API key check: r with the context in b, sent on to the AI call when
\* a key is configured.
AskContext(r, ok, key) ==
    LET hit == Matching(user_data, LAMBDA d : d.user_id = r.uid)
        found == ok /\ hit # {}
        ctx == Context(found, user_data[IF found THEN First(hit) ELSE 1])
        built == [r EXCEPT !.db = @ + 1, !.b = ctx]
    IN  IF ~key THEN Finish(built, "not_configured")
        ELSE [built EXCEPT !.pc = "ask_ai"]

AskProfile(c) ==
    /\ At(c, "ask_profile")
    /\ \E ok \in BOOLEAN : Step(c, AskContext(req[c], ok, api_key))
    /\ UNCHANGED <<users, user_data, qa_history, admissions, session, api_key, now,
                   budget, probe>>

\* Faulty variant, for comparison: the empty answer is not refused.
AskAnswer_keeps_empty(r, out) ==
    LET called == [r EXCEPT !.ai = @ + 1, !.text = out]
    IN  IF out = AiFailure
        THEN Finish(called, "ai_unavailable")
        ELSE [called EXCEPT !.pc = "ask_save", !.b = strip(out)]

\* model.generate_content(prompt) and the check of its text: out is what the
\* client gave back.
AskAnswer(r, out) ==
    LET called == [r EXCEPT !.ai = @ + 1, !.text = out]
        ai_answer == IF out = AiFailure THEN <<>> ELSE strip(out)
    IN  IF ai_answer = <<>>
        THEN Finish(called, "ai_unavailable")
        ELSE [called EXCEPT !.pc = "ask_save", !.b = ai_answer]

AskAI(c) ==
    /\ At(c, "ask_ai")
    /\ \E out \in AiOutcomes : Step(c, AskAnswer(req[c], out))
    /\ UNCHANGED <<users, user_data, qa_history, admissions, session, api_key, now,
                   budget, probe>>

\* The document of mongo.db.qa_history.insert_one(...).
QARecord(r, t) ==
    [user_id |-> r.uid, username |-> r.uname, question |-> r.a, answer |-> r.b,
     timestamp |-> t]

\* The insert; a failure lands in the same except clause as an AI failure.
AskSave(c) ==
    /\ At(c, "ask_save")
    /\ \E ok \in BOOLEAN :
          IF ok
          THEN /\ qa_history' = Append(qa_history, QARecord(req[c], now))
               /\ admissions' = Append(admissions, req[c].count)
               /\ Step(c, Finish([req[c] EXCEPT !.db = @ + 1, !.ins = @ + 1], "answered"))
          ELSE /\ UNCHANGED <<qa_history, admissions>>
               /\ Step(c, Finish([req[c] EXCEPT !.db = @ + 1], "ai_unavailable"))
    /\ UNCHANGED <<users, user_data, session, api_key, now, budget, probe>>

\* The response is sent and the client is free for its next request.
Return(c) ==
    /\ req[c].pc = "done"
    /\ req' = [req EXCEPT ![c] = Idle]
    /\ UNCHANGED <<users, user_data, qa_history, admissions, session, api_key, now,
                   budget, probe>>

\* ------------------------------------------------------------------ time

Tick ==
    /\ Quiet
    /\ now < MaxTime
    /\ now' = now + 1
    /\ UNCHANGED <<users, user_data, qa_history, admissions, session, api_key, req,
                   budget, probe>>

\* ------------------------------------------------------------------ specification

Next ==
    \/ \E c \in Clients, u \in RawUsernames, p \in Passwords : Register(c, u, p)
    \/ \E c \in Clients : RegisterInsertUser(c)
    \/ \E c \in Clients : RegisterInsertProfile(c)
    \/ \E c \in Clients, u \in RawUsernames, p \in Passwords : Login(c, u, p)
    \/ \E c \in Clients : LoginUpdate(c)
    \/ \E c \in Clients : Logout(c)
    \/ \E c \in Clients : Dashboard(c)
    \/ \E c \in Clients, f \in ProfileForms : Profile(c, f)
    \/ \E c \in Clients : ProfileUpdate(c)
    \/ \E c \in Clients, q \in Questions : Ask(c, q)
    \/ \E c \in Clients : AskProfile(c)
    \/ \E c \in Clients : AskAI(c)
    \/ \E c \in Clients : AskSave(c)
    \/ \E c \in Clients : Return(c)
    \/ Tick

Spec == Init /\ [][Next]_vars

\* ------------------------------------------------------------------ the rate limiter alone

\* Users whose history the limiter is asked about.
ProbeUsers == {2, 3}

ProbeRecord(user_id, t) ==
    [user_id |-> user_id, username |-> bob, question |-> <<"q">>,
     answer |-> <<"a">>, timestamp |-> t]

\* Histories as the application leaves them: in insertion order, so with
\* timestamps that never decrease and none in the future.
ProbeHistories(t) ==
    {h \in UNION {[1..n -> {ProbeRecord(u, k) : u \in ProbeUsers, k \in 0..t}] :
                  n \in 0..MaxProbe} :
        \A i \in 1..(Len(h) - 1) : h[i].timestamp <= h[i + 1].timestamp}

InitRate ==
    /\ users = SeedUsers
    /\ user_data = SeedProfiles
    /\ session = [c \in Clients |-> Anonymous]
    /\ now \in 0..MaxProbe
    /\ qa_history \in ProbeHistories(now)
    /\ admissions = [i \in 1..Len(qa_history) |-> -1]
    /\ api_key = TRUE
    /\ req = [c \in Clients |-> Idle]
    /\ budget = 0
    /\ probe = NoProbe

\* One call rate_limit_check(user_id, limit, window) on the store as it is.
RateLimitProbe ==
    /\ probe = NoProbe
    /\ \E u \in ProbeUsers, limit \in 0..MaxProbe, window \in 0..MaxProbe, ok \in BOOLEAN :
          probe' = [fn |-> "rate_limit_check", user_id |-> u, limit |-> limit,
                    window |-> window, ok |-> ok,
                    result |-> rate_limit_check(qa_history, now, u, limit, window, ok)]
    /\ UNCHANGED <<users, user_data, qa_history, admissions, session, api_key, now, req,
                   budget>>

NextRate == RateLimitProbe

SpecRate == InitRate /\ [][NextRate]_vars

\* ------------------------------------------------------------------ the password policy alone

PwAlphabet == {"a", "Z", "7", "-"}
ProbePasswords == UNION {[1..n -> PwAlphabet] : n \in 0..MaxPwLen}

InitPw ==
    /\ users = SeedUsers
    /\ user_data = SeedProfiles
    /\ session = [c \in Clients |-> Anonymous]
    /\ now = 0
    /\ qa_history = <<>>
    /\ admissions = <<>>
    /\ api_key = TRUE
    /\ req = [c \in Clients |-> Idle]
    /\ budget = 0
    /\ probe = NoProbe

\* One call validate_password(password).
PasswordProbe ==
    /\ probe = NoProbe
    /\ \E p \in ProbePasswords :
          probe' = [fn |-> "validate_password", password |-> p,
                    result |-> validate_password(p)]
    /\ UNCHANGED <<users, user_data, qa_history, admissions, session, api_key, now, req,
                   budget>>

NextPw == PasswordProbe

SpecPw == InitPw /\ [][NextPw]_vars

\* ------------------------------------------------------------------ the sanitizer alone

\* Ordinary characters, white space, and the four characters of the class.
SanAlphabet == {"a", "b", " ", "\n", "<", ">", "\"", "'"}
ProbeTexts == {NoneText} \cup UNION {[1..n -> SanAlphabet] : n \in 0..MaxSanLen}

InitSan ==
    /\ users = SeedUsers
    /\ user_data = SeedProfiles
    /\ session = [c \in Clients |-> Anonymous]
    /\ now = 0
    /\ qa_history = <<>>
    /\ admissions = <<>>
    /\ api_key = TRUE
    /\ req = [c \in Clients |-> Idle]
    /\ budget = 0
    /\ probe = NoProbe

\* One call sanitize_input(text).
SanitizeProbe ==
    /\ probe = NoProbe
    /\ \E t \in ProbeTexts :
          probe' = [fn |-> "sanitize_input", text |-> t,
                    result |-> sanitize_input(t)]
    /\ UNCHANGED <<users, user_data, qa_history, admissions, session, api_key, now, req,
                   budget>>

NextSan == SanitizeProbe

SpecSan == InitSan /\ [][NextSan]_vars

\* ------------------------------------------------------------------ properties

\* The QARecords of user u whose timestamp is within w ticks before t.
InWindow(u, t, w) ==
    Cardinality({i \in 1..Len(qa_history) :
                    qa_history[i].user_id = u /\ qa_history[i].timestamp >= t - w})

\* The QARecords of user u older than that.
Older(u, t, w) ==
    Cardinality({i \in 1..Len(qa_history) :
                    qa_history[i].user_id = u /\ qa_history[i].timestamp < t - w})

\* C1: when the count query succeeds, rate_limit_check(userId, limit, window)
\* is true exactly when the user's records with timestamp >= now - window are
\* fewer than limit: false with exactly limit of them, true with limit - 1,
\* and true for any limit >= 1 when all the user's records are older than the
\* window, however many those are.
C1_RateLimitDecision ==
    (probe.fn = "rate_limit_check" /\ probe.ok) =>
        LET n == InWindow(probe.user_id, now, probe.window)
            allowed == probe.result[2]
        IN  /\ allowed = (n < probe.limit)
            /\ n = probe.limit => ~allowed
            /\ n = probe.limit - 1 => allowed
            /\ (n = 0 /\ probe.limit >= 1) => allowed
            /\ probe.result[1] = n

\* C1 witness: exactly limit records inside the window deny the call while
\* older records of the same user are in the store.
C1_Witness ==
    /\ probe.fn = "rate_limit_check" /\ probe.ok
    /\ probe.limit >= 1
    /\ InWindow(probe.user_id, now, probe.window) = probe.limit
    /\ Older(probe.user_id, now, probe.window) >= 1
    /\ ~probe.result[2]

NoLetter(p) == \A i \in 1..Len(p) : p[i] \notin {"a", "Z"}

\* C10 as stated: every password without a letter is refused with the
\* "must contain a letter" reason, whatever its length and digits.
C10_NoLetterAnyLength ==
    (probe.fn = "validate_password" /\ NoLetter(probe.password)) =>
        probe.result = <<FALSE, "Password must contain at least one letter">>

\* C10 as amended: every password without a letter is refused; the reason is
\* "must contain a letter" when it has at least 8 characters and "at least 8
\* characters long" when it is shorter.
C10_NoLetterRefused ==
    (probe.fn = "validate_password" /\ NoLetter(probe.password)) =>
        /\ probe.result[1] = FALSE
        /\ Len(probe.password) >= 8 =>
              probe.result[2] = "Password must contain at least one letter"
        /\ Len(probe.password) < 8 =>
              probe.result[2] = "Password must be at least 8 characters long"

\* C10 witness: eight digits are refused for want of a letter.
C10_Witness ==
    /\ probe.fn = "validate_password"
    /\ probe.password = <<"7", "7", "7", "7", "7", "7", "7", "7">>
    /\ probe.result = <<FALSE, "Password must contain at least one letter">>

\* The step starts client c's request (its handler's first step).
Starts(c) == req[c].pc = "idle" /\ req'[c].pc # "idle"

Store == <<users, user_data, qa_history>>

\* C2: an ask() whose rate_limit_check returned false ends there with the
\* "try again later" outcome, having made no AI call and no QARecord insert,
\* and leaves qa_history as it was; and the check does return false whenever
\* the count succeeds on a user with at least Limit records in the window.
C2_RateLimitedAskDoesNothing ==
    [][\A c \in Clients :
          /\ (req'[c].op = "ask" /\ req'[c].rl = "denied") =>
                /\ req'[c].pc = "done"
                /\ req'[c].outcome = "rate_limited"
                /\ req'[c].ai = 0 /\ req'[c].ins = 0
                /\ qa_history' = qa_history
          /\ (Starts(c) /\ req'[c].op = "ask" /\ req'[c].rl \in {"allowed", "denied"}
                /\ InWindow(req'[c].uid, now, Window) >= Limit) =>
                req'[c].rl = "denied"
    ]_vars

\* C2 witness: a rate-limited ask has been answered "try again later" while
\* the user's window is full.
C2_Witness ==
    \E c \in Clients :
        /\ req[c].pc = "done" /\ req[c].op = "ask"
        /\ req[c].outcome = "rate_limited"
        /\ req[c].count = Limit
        /\ InWindow(req[c].uid, now, Window) = Limit

\* C3 as stated: an ask() whose count query raised is never denied by the
\* rate limit and goes on to the AI call, whatever the number of records.
C3_FailOpenReachesAI ==
    \A c \in Clients :
        (req[c].op = "ask" /\ req[c].rl = "failed") =>
            /\ req[c].outcome # "rate_limited"
            /\ req[c].pc = "done" => req[c].ai = 1

\* C3 as amended: an ask() whose count query raised is never denied by the
\* rate limit, whatever the number of records; it goes on to the AI call when
\* an API key is configured, and ends with the "not configured" outcome,
\* without an AI call, when none is.
C3_FailOpen ==
    \A c \in Clients :
        (req[c].op = "ask" /\ req[c].rl = "failed") =>
            /\ req[c].outcome # "rate_limited"
            /\ req[c].pc \in {"ask_profile", "ask_ai", "ask_save", "done"}
            /\ (req[c].pc = "done" /\ api_key) => req[c].ai = 1
            /\ (req[c].pc = "done" /\ ~api_key) =>
                  (req[c].outcome = "not_configured" /\ req[c].ai = 0)

\* C3 witness: the count raised for a user whose window is full, and the
\* request has made its AI call.
C3_Witness ==
    \E c \in Clients :
        /\ req[c].op = "ask" /\ req[c].rl = "failed"
        /\ req[c].ai = 1
        /\ InWindow(req[c].uid, now, Window) >= Limit

\* What the AI client gave back when it failed or answered nothing.
NoAnswer == {AiFailure, <<>>, <<" ", "\n">>}

\* QGood without its dangerous characters and outer white space, and the
\* answer without its outer white space, written out.
SanitizedQGood == <<"b", "W", "h", "y", " ", "c", "a", "n", "t",
                    " ", "I", " ", "s", "l", "e", "e", "p", "?">>
TrimmedAnswer == <<"R", "e", "s", "t", ".">>

\* C4: when the AI call fails or returns empty or blank text, ask() ends with
\* the "service unavailable" outcome and persists nothing; qa_history changes
\* only by the insert of a request whose AI call returned non-empty text, and
\* the record holds the user, the sanitized question and the trimmed answer.
C4_OnlyAnswersArePersisted ==
    [][/\ \A c \in Clients :
             (req[c].pc = "ask_ai" /\ req'[c] # req[c] /\ req'[c].text \in NoAnswer) =>
                /\ req'[c].pc = "done"
                /\ req'[c].outcome = "ai_unavailable"
                /\ req'[c].ai = 1 /\ req'[c].ins = 0
                /\ qa_history' = qa_history
       /\ qa_history' # qa_history =>
             \E c \in Clients :
                /\ req[c].pc = "ask_save" /\ req[c].ai = 1
                /\ req[c].text \notin NoAnswer
                /\ req[c].q = QGood
                /\ req'[c].outcome = "answered" /\ req'[c].ins = 1
                /\ qa_history' = Append(qa_history,
                      [user_id |-> session[c], username |-> bob,
                       question |-> SanitizedQGood, answer |-> TrimmedAnswer,
                       timestamp |-> now])
    ]_vars

\* C4 witness: the AI client returned blank text and the request ended
\* "service unavailable" with nothing inserted.
C4_Witness ==
    \E c \in Clients :
        /\ req[c].pc = "done" /\ req[c].op = "ask"
        /\ req[c].text = <<" ", "\n">>
        /\ req[c].outcome = "ai_unavailable"
        /\ req[c].ins = 0

Protected == {"dashboard", "profile", "ask", "logout"}

\* C5: a request for dashboard, profile, ask or logout by a client whose
\* session is Anonymous is answered at once with the redirect to login, with
\* no store call, no AI call and no change of store or session; a protected
\* request that is not redirected runs for the user of its client's session.
C5_ProtectedNeedLogin ==
    [][\A c \in Clients :
          /\ (Starts(c) /\ req'[c].op \in Protected /\ session[c] = Anonymous) =>
                /\ req'[c].pc = "done"
                /\ req'[c].outcome = "redirect_login"
                /\ req'[c].db = 0 /\ req'[c].ai = 0
                /\ Store' = Store
                /\ session' = session
          /\ (req'[c].pc # "idle" /\ req'[c].op \in Protected
                /\ req'[c].outcome # "redirect_login") =>
                (session[c] # Anonymous /\ req'[c].uid = session[c])
    ]_vars

\* C5 witness: an anonymous client asked for ask and was redirected.
C5_Witness ==
    \E c \in Clients :
        /\ session[c] = Anonymous
        /\ req[c].pc = "done" /\ req[c].op = "ask"
        /\ req[c].outcome = "redirect_login"

\* The stored form of the usernames submitted, written out.
Normalized(username) == IF username = eve THEN eve ELSE bob

\* Some active user has this normalized username and this password.
ValidLogin(username, password) ==
    \E i \in 1..Len(users) :
        /\ users[i].username = Normalized(username)
        /\ users[i].is_active
        /\ users[i].password = generate_password_hash(password)

\* C6: a client's session changes only by a login whose normalized username
\* belongs to an active user with a matching password, which makes it that
\* user's, or by a logout, which makes it Anonymous; a login with an unknown
\* username, an inactive user or a wrong password ends without a change of
\* session or of any user record; last_login is stamped only by the login
\* that has set the session.
C6_SessionTransitions ==
    [][/\ \A c \in Clients :
          /\ session'[c] # session[c] =>
                \/ /\ session'[c] = Anonymous
                   /\ req'[c].op = "logout" /\ req'[c].outcome = "logged_out"
                \/ /\ Starts(c) /\ req'[c].op = "login"
                   /\ ValidLogin(req'[c].q, req'[c].b)
                   /\ \E i \in 1..Len(users) :
                         /\ users[i].id = session'[c]
                         /\ users[i].username = Normalized(req'[c].q)
                         /\ users[i].is_active
                         /\ users[i].password = generate_password_hash(req'[c].b)
          /\ (Starts(c) /\ req'[c].op = "login"
                /\ ~ValidLogin(req'[c].q, req'[c].b)) =>
                /\ req'[c].pc = "done"
                /\ session' = session
                /\ users' = users
          /\ (Starts(c) /\ req'[c].op = "logout" /\ req'[c].outcome = "logged_out") =>
                session'[c] = Anonymous
          /\ (req[c].pc = "login_update" /\ req'[c].outcome = "logged_in") =>
                /\ session[c] = req[c].uid
                /\ \E i \in 1..Len(users) :
                      users[i].id = req[c].uid /\ users'[i].last_login = now
       /\ (users' # users /\ Len(users') = Len(users)) =>
             \E d \in Clients : req[d].pc = "login_update" /\ session[d] = req[d].uid
    ]_vars

\* C6 witness: a login with bob's password has set the session and stamped
\* last_login.
C6_Witness ==
    \E c \in Clients :
        /\ req[c].pc = "done" /\ req[c].op = "login"
        /\ req[c].outcome = "logged_in"
        /\ session[c] = req[c].uid /\ session[c] # Anonymous
        /\ \E i \in 1..Len(users) :
              users[i].id = session[c] /\ users[i].last_login = now

\* C7: no two User records hold the same stored username.
C7_UniqueUsernames ==
    \A i, j \in 1..Len(users) : i # j => users[i].username # users[j].username

\* C8: once no registration is between its two inserts, every User record
\* has exactly one UserProfile with its user id.
C8_OneProfilePerUser ==
    (\A c \in Clients : req[c].pc # "reg_insert_profile") =>
        \A i \in 1..Len(users) :
            Cardinality({j \in 1..Len(user_data) :
                            user_data[j].user_id = users[i].id}) = 1

\* The records of the same user inserted before record i that were inside
\* the window when record i was inserted.
Before(i) ==
    Cardinality({j \in 1..(i - 1) :
                    /\ qa_history[j].user_id = qa_history[i].user_id
                    /\ qa_history[j].timestamp >= qa_history[i].timestamp - Window})

\* Record i was admitted on a count that a later insert had outdated by the
\* time it was itself inserted: its request overlapped another's.
Stale(i) == admissions[i] # -1 /\ admissions[i] < Before(i)

\* C9: a user has more than Limit records inside the window only through the
\* race or a failed count: one of those records was admitted on a count that
\* another request's insert outdated before it was persisted, or on a count
\* that raised.
C9_OvershootOnlyByOverlap ==
    \A u \in 1..(1 + MaxRequests) :
        InWindow(u, now, Window) > Limit =>
            \E i \in 1..Len(qa_history) :
                /\ qa_history[i].user_id = u
                /\ qa_history[i].timestamp >= now - Window
                /\ (admissions[i] = -1 \/ Stale(i))

\* C9 witness: two records of one user, both admitted on the same count
\* Limit - 1, are inside the window together with more than Limit records.
C9_Witness ==
    \E i, j \in 1..Len(qa_history) :
        /\ i # j
        /\ qa_history[i].user_id = qa_history[j].user_id
        /\ admissions[i] = Limit - 1 /\ admissions[j] = Limit - 1
        /\ qa_history[i].timestamp >= now - Window
        /\ qa_history[j].timestamp >= now - Window
        /\ InWindow(qa_history[i].user_id, now, Window) > Limit

\* The positions of text that outlive sanitizing: those holding none of the
\* four characters that have, among the positions holding none of them, a
\* character other than white space at or before them and one at or after.
Surviving(text) ==
    LET kept == {i \in 1..Len(text) : text[i] \notin {"<", ">", "\"", "'"}}
        solid == {i \in kept : text[i] \notin {" ", "\n"}}
    IN  {i \in kept : (\E j \in solid : j <= i) /\ (\E j \in solid : j >= i)}

\* C11: for every input text, sanitize_input(text) contains none of < > " '
\* and is exactly the input with those characters deleted, the others kept in
\* their order, and then leading and trailing white space trimmed; an empty or
\* absent input gives the empty string.
C11_SanitizeContract ==
    probe.fn = "sanitize_input" =>
        LET text == probe.text
            out == probe.result
        IN  /\ \A k \in 1..Len(out) : out[k] \notin {"<", ">", "\"", "'"}
            /\ (text = NoneText \/ text = <<>>) => out = <<>>
            /\ text # NoneText =>
                  LET S == Surviving(text)
                  IN  /\ Len(out) = Cardinality(S)
                      /\ \A i \in S :
                            out[Cardinality({j \in S : j <= i})] = text[i]

\* C11 witness: a text that starts with one of the four characters followed
\* by white space, so that deleting exposes white space to the trim, and
\* holds another of them between two kept characters, is sanitized to the
\* kept characters alone.
C11_Witness ==
    /\ probe.fn = "sanitize_input"
    /\ probe.text = <<"<", " ", "a", "'">>
    /\ probe.result = <<"a">>

====
